---- MODULE Spec2Model ----
(***************************************************************************)
(* Model of the hub chat-server client SDK (src/src/app.ts): the           *)
(* HttpClient class, its transport primitive http, the verb helpers post,  *)
(* put and delete, the endpoint methods, and the remote server the client  *)
(* talks to (the server is not part of the repository; it is modelled from *)
(* the endpoint table and scenarios of the specification).                 *)
(***************************************************************************)
EXTENDS Naturals, Sequences, FiniteSets, TLC

VARIABLES
    clients,    \* client object -> [base_url, auth] (the HttpClient fields)
    calls,      \* caller slot -> the invocation it runs (pending promise)
    hubs,       \* server: ids of the hubs that exist
    used,       \* server: the hub ids it has given out so far
    members,    \* server: hub id -> set of member users
    hubPerm,    \* server: hub id -> member -> hub permission setting
    deleted     \* history: <<client, hub>> for which deleteHub has returned

vars == <<clients, calls, hubs, used, members, hubPerm, deleted>>

(***************************************************************************)
(* JavaScript / JSON values.  Every value is a record [t, v, f]: t is the  *)
(* typeof-like tag, v the printed scalar, f the fields of an object        *)
(* literal (a sequence of <<key, value>> pairs, in source order).          *)
(***************************************************************************)
Undefined == [t |-> "undefined", v |-> "", f |-> <<>>]
Null      == [t |-> "null", v |-> "", f |-> <<>>]
False     == [t |-> "boolean", v |-> "false", f |-> <<>>]
True      == [t |-> "boolean", v |-> "true", f |-> <<>>]
Num(s)    == [t |-> "number", v |-> s, f |-> <<>>]
Str(s)    == [t |-> "string", v |-> s, f |-> <<>>]
DateOf(s) == [t |-> "date", v |-> s, f |-> <<>>]
Obj(s)    == [t |-> "object", v |-> s, f |-> <<>>]
ObjLit(f) == [t |-> "object", v |-> "", f |-> f]

\* JavaScript truthiness of a value (used by the `!x` of the test script).
Truthy(x) ==
    /\ x.t \notin {"undefined", "null"}
    /\ x # False
    /\ x # Num("0")
    /\ x # Str("")

\* JSON.stringify: fields whose value is undefined are dropped, strings and
\* dates are quoted, numbers, booleans and null print as they are.
\* The escaping JSON.stringify applies to a string: a double quote becomes
\* backslash double quote.  The strings of the model that hold a double quote
\* are the serialized bodies the endpoint methods hand to put.
Escape(str) ==
    CASE str = "{\"name\":\"test1\"}" -> "{\\\"name\\\":\\\"test1\\\"}"
      [] str = "{\"setting\":true}" -> "{\\\"setting\\\":true}"
      [] str = "{\"setting\":false}" -> "{\\\"setting\\\":false}"
      [] OTHER -> str

RECURSIVE JSONtext(_), JSONfields(_, _)
JSONfields(f, first) ==
    IF f = <<>> THEN ""
    ELSE IF Head(f)[2].t = "undefined" THEN JSONfields(Tail(f), first)
    ELSE (IF first THEN "" ELSE ",")
            \o "\"" \o Head(f)[1] \o "\":" \o JSONtext(Head(f)[2])
            \o JSONfields(Tail(f), FALSE)

JSONtext(x) ==
    CASE x.t = "string"  -> "\"" \o Escape(x.v) \o "\""
      [] x.t = "date"    -> "\"" \o x.v \o "\""
      [] x.t = "object"  -> "{" \o JSONfields(x.f, TRUE) \o "}"
      [] x.t = "null"    -> "null"
      [] OTHER           -> x.v

JSONstringify(x) == IF x.t = "undefined" THEN Undefined ELSE Str(JSONtext(x))

\* Property access x.k on a parsed JSON value: undefined when x has no such
\* property (reading a property of null or undefined throws a TypeError, which
\* the callers test with Throws).
Prop(x, k) ==
    LET idx == {i \in 1..Len(x.f) : x.f[i][1] = k}
    IN  IF idx = {} THEN Undefined ELSE x.f[CHOOSE i \in idx : TRUE][2]

Throws(x) == x.t \in {"null", "undefined"}

(***************************************************************************)
(* The client objects of the test script: both talk to the same server,    *)
(* each with its own user id as auth token.                                *)
(***************************************************************************)
Clients == {"client", "extra_client"}
Users == {"u1", "u2"}
ServerBase == <<"http://127.0.0.1:8080/api">>
BaseUrls == {ServerBase}

\* new HttpClient(base_url, auth)
HttpClient(base_url, auth) == [base_url |-> base_url, auth |-> auth]

(***************************************************************************)
(* The transport primitive and the verb helpers.  A URL is the sequence of *)
(* the string pieces the code concatenates with +; a request is what is    *)
(* handed to fetch.                                                        *)
(***************************************************************************)
Header(name, value) == <<name, value>>

\* the default value of http's init parameter
DefaultInit(c) ==
    [method |-> "GET",
     headers |-> {Header("Authorization", clients[c].auth)},
     body |-> Undefined]

\* fetch(url, init): the request that goes out
fetch(url, init) ==
    [url |-> url, method |-> init.method, headers |-> init.headers,
     body |-> init.body]

\* http, up to its first await
http(c, url, init) == fetch(url, init)

\* post that always declares and serializes a JSON body, as put declares it
post_alwaysJson(c, url, body) ==
    http(c, url,
         [method |-> "POST",
          headers |-> {Header("Authorization", clients[c].auth),
                       Header("Content-type", "application/json")},
          body |-> JSONstringify(body)])

post(c, url, body) ==
    LET body_text == IF body # Undefined THEN JSONstringify(body) ELSE Str("")
        content_type == IF body # Undefined THEN "application/json" ELSE ""
    IN  http(c, url,
             [method |-> "POST",
              headers |-> {Header("Authorization", clients[c].auth),
                           Header("Content-type", content_type)},
              body |-> body_text])

\* put that treats its body argument as post does
put_likePost(c, url, body) ==
    LET body_text == IF body # Undefined THEN JSONstringify(body) ELSE Str("")
        content_type == IF body # Undefined THEN "application/json" ELSE ""
    IN  http(c, url,
             [method |-> "PUT",
              headers |-> {Header("Authorization", clients[c].auth),
                           Header("Content-type", content_type)},
              body |-> body_text])

put(c, url, body) ==
    http(c, url,
         [method |-> "PUT",
          headers |-> {Header("Authorization", clients[c].auth),
                       Header("Content-type", "application/json")},
          body |-> body])

\* delete that sends no Authorization header
delete_noAuth(c, url) ==
    http(c, url, [method |-> "DELETE", headers |-> {}, body |-> Undefined])

delete(c, url) ==
    http(c, url,
         [method |-> "DELETE",
          headers |-> {Header("Authorization", clients[c].auth)},
          body |-> Undefined])

\* http, after the awaits: the outcome for the parsed body json
Return(x) == [kind |-> "return", value |-> x, cls |-> "", message |-> ""]
Raise(cls, msg) == [kind |-> "raise", value |-> Undefined, cls |-> cls, message |-> msg]

\* new Error(e).message: "" for undefined, the string itself for a string
ErrorMessage(e) == IF e.t = "undefined" THEN "" ELSE e.v

\* http with the error field tested first
httpResult_errorFirst(json) ==
    IF Throws(json) THEN Raise("TypeError", "")
    ELSE IF Prop(json, "error") # Undefined
         THEN Raise("Error", ErrorMessage(Prop(json, "error")))
         ELSE Return(Prop(json, "success"))

\* http that throws an Error without the server's message
httpResult_noMessage(json) ==
    IF Throws(json) THEN Raise("TypeError", "")
    ELSE IF Prop(json, "success") # Undefined
         THEN Return(Prop(json, "success"))
         ELSE Raise("Error", "")

\* http with a truthiness test of the success field
httpResult_truthy(json) ==
    IF Throws(json) THEN Raise("TypeError", "")
    ELSE IF Truthy(Prop(json, "success"))
         THEN Return(Prop(json, "success"))
         ELSE Raise("Error", ErrorMessage(Prop(json, "error")))

\* an earlier http that tests success with !== undefined, as the final one
httpDraft_defined(json) ==
    IF Throws(json) THEN Raise("TypeError", "")
    ELSE IF Prop(json, "success") # Undefined
         THEN Return(Prop(json, "success"))
         ELSE Raise("Error", ErrorMessage(Prop(json, "error")))

\* the draft of http: if (result.success) return result.success,
\* else throw new Error(result.error)
httpDraft(json) ==
    IF Throws(json) THEN Raise("TypeError", "")
    ELSE IF Truthy(Prop(json, "success"))
         THEN Return(Prop(json, "success"))
         ELSE Raise("Error", ErrorMessage(Prop(json, "error")))

\* http with a loose test, success != null
httpResult_looseNull(json) ==
    IF Throws(json) THEN Raise("TypeError", "")
    ELSE IF Prop(json, "success") \notin {Undefined, Null}
         THEN Return(Prop(json, "success"))
         ELSE Raise("Error", ErrorMessage(Prop(json, "error")))

httpResult(json) ==
    IF Throws(json) THEN Raise("TypeError", "")
    ELSE IF Prop(json, "success") # Undefined
         THEN Return(Prop(json, "success"))
         ELSE Raise("Error", ErrorMessage(Prop(json, "error")))

\* graphQL that unwraps the envelope as http does
graphQLResult_unwrapped(json) == httpResult(json)

\* graphQL, after the awaits: the parsed body as it is
graphQLResult(json) == Return(json)

(***************************************************************************)
(* The endpoint methods: the request each one hands to fetch.              *)
(***************************************************************************)
base(c) == clients[c].base_url
Fields2(k1, v1, k2, v2) == ObjLit(<<<<k1, v1>>, <<k2, v2>>>>)
JsonHeaders(c) ==
    {Header("Authorization", clients[c].auth),
     Header("Content-type", "application/json")}

getHub(c, id) == http(c, base(c) \o <<"/hub/", id>>, DefaultInit(c))

createHub(c, name, description) ==
    post(c, base(c) \o <<"/hub">>, Fields2("name", name, "description", description))

deleteHub(c, id) == http(c, base(c) \o <<"/hub/", id>>, DefaultInit(c))

updateHub(c, id, update) == put(c, base(c) \o <<"/hub/", id>>, JSONstringify(update))

joinHub(c, hub_id) == post(c, base(c) \o <<"/hub/", hub_id, "/join">>, Undefined)

leaveHub(c, hub_id) == post(c, base(c) \o <<"/hub/", hub_id, "/leave">>, Undefined)

getChannel(c, hub_id, channel_id) ==
    http(c, base(c) \o <<"/channel/", hub_id, "/", channel_id>>, DefaultInit(c))

updateChannel(c, hub_id, channel_id, update) ==
    put(c, base(c) \o <<"/channel/", hub_id, "/", channel_id>>, JSONstringify(update))

deleteChannel(c, hub_id, channel_id) ==
    delete(c, base(c) \o <<"/channel/", hub_id, "/", channel_id>>)

createChannel(c, hub_id, name, description) ==
    post(c, base(c) \o <<"/channel/", hub_id>>,
         Fields2("name", name, "description", description))

getMember(c, hub_id, member_id) ==
    http(c, base(c) \o <<"/member/", hub_id, "/", member_id>>, DefaultInit(c))

getMemberStatus(c, hub_id, member_id) ==
    http(c, base(c) \o <<"/member/", hub_id, "/", member_id, "/status">>, DefaultInit(c))

setMemberHubPermission(c, hub_id, member_id, permission, setting) ==
    put(c, base(c) \o <<"/member/", hub_id, "/", member_id, "/hub_permission/", permission>>,
        JSONstringify(ObjLit(<<<<"setting", setting>>>>)))

setMemberChannelPermission(c, hub_id, member_id, channel_id, permission, setting) ==
    put(c, base(c) \o <<"/member/", hub_id, "/", member_id, "/channel_permission/",
                        channel_id, "/", permission>>,
        JSONstringify(ObjLit(<<<<"setting", setting>>>>)))

getMemberHubPermission(c, hub_id, member_id, permission) ==
    http(c, base(c) \o <<"/member/", hub_id, "/", member_id, "/hub_permission/", permission>>,
         DefaultInit(c))

getMemberChannelPermission(c, hub_id, member_id, channel_id, permission) ==
    http(c, base(c) \o <<"/member/", hub_id, "/", member_id, "/channel_permission/",
                         channel_id, "/", permission>>,
         DefaultInit(c))

\* banMember, unbanMember, muteMember, unmuteMember, kickMember: action is
\* "/ban", "/unban", "/mute", "/unmute" or "/kick"
MemberMethods ==
    {<<"banMember", "/ban">>, <<"unbanMember", "/unban">>, <<"muteMember", "/mute">>,
     <<"unmuteMember", "/unmute">>, <<"kickMember", "/kick">>}
memberAction(c, hub_id, member_id, action) ==
    post(c, base(c) \o <<"/member/", hub_id, "/", member_id, action>>, Undefined)

sendMessage(c, hub_id, channel_id, message) ==
    post(c, base(c) \o <<"/message/", hub_id, "/", channel_id>>,
         ObjLit(<<<<"message", message>>>>))

getMessage(c, hub_id, channel_id, message_id) ==
    http(c, base(c) \o <<"/message/", hub_id, "/", channel_id, "/", message_id>>,
         DefaultInit(c))

getMessagesAfter(c, hub_id, channel_id, from, max) ==
    http(c, base(c) \o <<"/message/", hub_id, "/", channel_id, "/after">>,
         [method |-> "GET", headers |-> JsonHeaders(c),
          body |-> JSONstringify(Fields2("from", from, "max", max))])

getMesssagesTimeRange(c, hub_id, channel_id, from, to, max, new_to_old) ==
    http(c, base(c) \o <<"/message/", hub_id, "/", channel_id, "/time_period">>,
         [method |-> "GET", headers |-> JsonHeaders(c),
          body |-> JSONstringify(ObjLit(<<<<"from", from>>, <<"to", to>>,
                                          <<"max", max>>, <<"new_to_old", new_to_old>>>>))])

graphQL(c, query, variables) ==
    fetch(base(c) \o <<"/graphql">>,
          [method |-> "POST", headers |-> JsonHeaders(c),
           body |-> JSONstringify(Fields2("query", query, "variables", variables))])

(***************************************************************************)
(* Inputs of the callers.                                                  *)
(***************************************************************************)
HubIds == {"h1"}
MemberArgs == {"u2"}
ChannelIds == {"ch1"}
HubPermArgs == {"ADMINISTRATE"}
ChannelPermArgs == {"MANAGE"}
SettingArgs == {Undefined, True, False}
NameArgs == {Undefined, Str("test0")}
UpdateArgs == {ObjLit(<<<<"name", Str("test1")>>, <<"description", Undefined>>>>)}
PutBodyArgs == {Undefined, Str("{\"name\":\"test1\"}")}

NoArgs == [hub |-> "", member |-> "", perm |-> "", body |-> Undefined]
NoReq == [url |-> <<>>, method |-> "", headers |-> {}, body |-> Undefined]
NoResp == [ok |-> FALSE, json |-> Undefined]
NoOutcome == [kind |-> "", value |-> Undefined, cls |-> "", message |-> ""]
\* no rejection reason
NoThrown == [cls |-> "", message |-> ""]
IdleCall ==
    [pc |-> "idle", client |-> "", op |-> "", via |-> "", args |-> NoArgs,
     req |-> NoReq, resp |-> NoResp, seen |-> "", outcome |-> NoOutcome,
     afterDelete |-> FALSE, nreq |-> 0, overlapped |-> FALSE,
     draft |-> NoOutcome, thrown |-> NoThrown]

Args(hub, member, perm, body) ==
    [hub |-> hub, member |-> member, perm |-> perm, body |-> body]

\* A caller slot is free when it awaits nothing: the test script awaits each
\* call before it makes the next.
Free(s) == calls[s].pc \in {"idle", "done"}

\* The synchronous part of an endpoint method: the request is handed to fetch
\* and the method suspends.  via is the helper the method delegates to, and
\* args.body the body argument it passes to that helper.
\* an invocation that has called fetch and is suspended on one of its awaits
Pending(s) == calls[s].pc \in {"sent", "responded"}

\* The call records once s has started a new invocation.  overlapped notes
\* that another invocation was suspended while this one was.
Started(s, c, op, via, args, req) ==
    [t \in DOMAIN calls |->
        IF t = s
        THEN [IdleCall EXCEPT !.pc = "sent", !.client = c, !.op = op, !.via = via,
                              !.args = args, !.req = req, !.nreq = 1,
                              !.afterDelete = (op = "getHub" /\ <<c, args.hub>> \in deleted),
                              !.overlapped = (\E u \in DOMAIN calls \ {s} : Pending(u))]
        ELSE IF Pending(t) THEN [calls[t] EXCEPT !.overlapped = TRUE]
        ELSE calls[t]]

\* a method that clears this.auth once it has built its request
Start_dropsAuth(s, c, op, via, args, req) ==
    /\ Free(s)
    /\ calls' = Started(s, c, op, via, args, req)
    /\ clients' = [clients EXCEPT ![c].auth = ""]
    /\ UNCHANGED <<hubs, used, members, hubPerm, deleted>>

Start(s, c, op, via, args, req) ==
    /\ Free(s)
    /\ calls' = Started(s, c, op, via, args, req)
    /\ UNCHANGED <<clients, hubs, used, members, hubPerm, deleted>>

Invoke_getHub(s, c) ==
    \E id \in HubIds :
        Start(s, c, "getHub", "http", Args(id, "", "", Undefined), getHub(c, id))

Invoke_createHub(s, c) ==
    \E name \in NameArgs, description \in NameArgs :
        Start(s, c, "createHub", "post",
              Args("", "", "", Fields2("name", name, "description", description)),
              createHub(c, name, description))

Invoke_deleteHub(s, c) ==
    \E id \in HubIds :
        Start(s, c, "deleteHub", "http", Args(id, "", "", Undefined), deleteHub(c, id))

Invoke_updateHub(s, c) ==
    \E id \in HubIds, update \in UpdateArgs :
        Start(s, c, "updateHub", "put", Args(id, "", "", JSONstringify(update)),
              updateHub(c, id, update))

Invoke_joinHub(s, c) ==
    \E id \in HubIds :
        Start(s, c, "joinHub", "post", Args(id, "", "", Undefined), joinHub(c, id))

Invoke_leaveHub(s, c) ==
    \E id \in HubIds :
        Start(s, c, "leaveHub", "post", Args(id, "", "", Undefined), leaveHub(c, id))

Invoke_getChannel(s, c) ==
    \E id \in HubIds, ch \in ChannelIds :
        Start(s, c, "getChannel", "http", Args(id, "", "", Undefined), getChannel(c, id, ch))

Invoke_updateChannel(s, c) ==
    \E id \in HubIds, ch \in ChannelIds, update \in UpdateArgs :
        Start(s, c, "updateChannel", "put", Args(id, "", "", JSONstringify(update)),
              updateChannel(c, id, ch, update))

Invoke_deleteChannel(s, c) ==
    \E id \in HubIds, ch \in ChannelIds :
        Start(s, c, "deleteChannel", "delete", Args(id, "", "", Undefined),
              deleteChannel(c, id, ch))

Invoke_createChannel(s, c) ==
    \E id \in HubIds, name \in NameArgs :
        Start(s, c, "createChannel", "post",
              Args(id, "", "", Fields2("name", name, "description", Undefined)),
              createChannel(c, id, name, Undefined))

Invoke_getMember(s, c) ==
    \E id \in HubIds, m \in MemberArgs :
        Start(s, c, "getMember", "http", Args(id, m, "", Undefined), getMember(c, id, m))

Invoke_getMemberStatus(s, c) ==
    \E id \in HubIds, m \in MemberArgs :
        Start(s, c, "getMemberStatus", "http", Args(id, m, "", Undefined),
              getMemberStatus(c, id, m))

Invoke_setMemberHubPermission(s, c) ==
    \E id \in HubIds, m \in Users, perm \in HubPermArgs, setting \in SettingArgs :
        Start(s, c, "setMemberHubPermission", "put",
              Args(id, m, perm, JSONstringify(ObjLit(<<<<"setting", setting>>>>))),
              setMemberHubPermission(c, id, m, perm, setting))

Invoke_setMemberChannelPermission(s, c) ==
    \E id \in HubIds, m \in MemberArgs, ch \in ChannelIds, perm \in ChannelPermArgs,
       setting \in SettingArgs :
        Start(s, c, "setMemberChannelPermission", "put",
              Args(id, m, perm, JSONstringify(ObjLit(<<<<"setting", setting>>>>))),
              setMemberChannelPermission(c, id, m, ch, perm, setting))

Invoke_getMemberHubPermission(s, c) ==
    \E id \in HubIds, m \in Users, perm \in HubPermArgs :
        Start(s, c, "getMemberHubPermission", "http", Args(id, m, perm, Undefined),
              getMemberHubPermission(c, id, m, perm))

Invoke_getMemberChannelPermission(s, c) ==
    \E id \in HubIds, m \in MemberArgs, ch \in ChannelIds, perm \in ChannelPermArgs :
        Start(s, c, "getMemberChannelPermission", "http", Args(id, m, perm, Undefined),
              getMemberChannelPermission(c, id, m, ch, perm))

\* banMember, unbanMember, muteMember, unmuteMember, kickMember
Invoke_memberAction(s, c) ==
    \E id \in HubIds, m \in MemberArgs, mm \in MemberMethods :
        Start(s, c, mm[1], "post", Args(id, m, "", Undefined),
              memberAction(c, id, m, mm[2]))

Invoke_sendMessage(s, c) ==
    \E id \in HubIds, ch \in ChannelIds :
        Start(s, c, "sendMessage", "post",
              Args(id, "", "", ObjLit(<<<<"message", Str("test message")>>>>)),
              sendMessage(c, id, ch, Str("test message")))

Invoke_getMessage(s, c) ==
    \E id \in HubIds, ch \in ChannelIds :
        Start(s, c, "getMessage", "http", Args(id, "", "", Undefined),
              getMessage(c, id, ch, "m1"))

Invoke_getMessagesAfter(s, c) ==
    \E id \in HubIds, ch \in ChannelIds :
        Start(s, c, "getMessagesAfter", "http", Args(id, "", "", Undefined),
              getMessagesAfter(c, id, ch, Str("m1"), Num("10")))

Invoke_getMesssagesTimeRange(s, c) ==
    \E id \in HubIds, ch \in ChannelIds, new_to_old \in {True, False} :
        Start(s, c, "getMesssagesTimeRange", "http", Args(id, "", "", Undefined),
              getMesssagesTimeRange(c, id, ch, DateOf("2021-01-01T00:00:00.000Z"),
                                    DateOf("2021-01-02T00:00:00.000Z"), Num("10"),
                                    new_to_old))

Invoke_graphQL(s, c) ==
    \E variables \in {Undefined, ObjLit(<<<<"id", Str("h1")>>>>)} :
        Start(s, c, "graphQL", "fetch", NoArgs,
              graphQL(c, Str("query{hub{name}}"), variables))

\* put called without going through an endpoint method (it is not private),
\* with and without its optional body argument
Invoke_put(s, c) ==
    \E id \in HubIds, body \in PutBodyArgs :
        Start(s, c, "put", "put", Args(id, "", "", body),
              put(c, base(c) \o <<"/hub/", id>>, body))

\* delete called without going through an endpoint method
Invoke_delete(s, c) ==
    \E id \in HubIds :
        Start(s, c, "delete", "delete", Args(id, "", "", Undefined),
              delete(c, base(c) \o <<"/hub/", id>>))

(***************************************************************************)
(* The server.  It is the external collaborator of the client: it          *)
(* implements the endpoint table, identifies the caller by the             *)
(* Authorization header, and may refuse any request with an error          *)
(* envelope (its permission checks are not modelled).                      *)
(***************************************************************************)
Ok(x) == ObjLit(<<<<"success", x>>>>)
Err(e) == ObjLit(<<<<"error", Str(e)>>>>)

\* the envelope with the given success and error fields; an undefined field is absent
Envelope(x, e) ==
    ObjLit((IF x = Undefined THEN <<>> ELSE <<<<"success", x>>>>)
           \o (IF e = Undefined THEN <<>> ELSE <<<<"error", e>>>>))

Successes == {Null, False, Num("0"), Str(""), Str("ok")}
\* what an endpoint without modelled state may answer: a success envelope, an
\* error envelope, an envelope with both fields or with none, and the JSON
\* document null
OtherBodies ==
    {Ok(x) : x \in Successes}
        \cup {Err("not found"), Envelope(False, Str("not found")),
              Envelope(Undefined, Undefined), Null}
GraphBodies ==
    {ObjLit(<<<<"data", Obj("hub")>>>>), Err("bad query"), Ok(False),
     Envelope(Str("ok"), Str("warning"))}

Path(req) ==
    IF /\ Len(req.url) >= Len(ServerBase)
       /\ SubSeq(req.url, 1, Len(ServerBase)) = ServerBase
    THEN SubSeq(req.url, Len(ServerBase) + 1, Len(req.url))
    ELSE <<>>

Route(req) ==
    LET p == Path(req)
        m == req.method
    IN  CASE m = "GET" /\ Len(p) = 2 /\ p[1] = "/hub/" -> "get_hub"
          [] m = "POST" /\ p = <<"/hub">> -> "create_hub"
          [] m = "DELETE" /\ Len(p) = 2 /\ p[1] = "/hub/" -> "delete_hub"
          [] m = "POST" /\ Len(p) = 3 /\ p[1] = "/hub/" /\ p[3] = "/join" -> "join_hub"
          [] m = "POST" /\ Len(p) = 3 /\ p[1] = "/hub/" /\ p[3] = "/leave" -> "leave_hub"
          [] m = "PUT" /\ Len(p) = 6 /\ p[1] = "/member/" /\ p[5] = "/hub_permission/"
                -> "set_hub_permission"
          [] m = "GET" /\ Len(p) = 6 /\ p[1] = "/member/" /\ p[5] = "/hub_permission/"
                -> "get_hub_permission"
          [] m = "PUT" /\ Len(p) = 8 /\ p[1] = "/member/" /\ p[5] = "/channel_permission/"
                -> "set_channel_permission"
          [] m = "GET" /\ Len(p) = 8 /\ p[1] = "/member/" /\ p[5] = "/channel_permission/"
                -> "get_channel_permission"
          [] m = "POST" /\ p = <<"/graphql">> -> "graphql"
          [] OTHER -> "other"

\* the user a request is made as: the value of its Authorization header
Requester(req) ==
    LET hs == {h \in req.headers : h[1] = "Authorization"}
    IN  IF hs = {} THEN "" ELSE (CHOOSE h \in hs : TRUE)[2]

\* the setting a set-permission body asks for
SettingOf(body) ==
    CASE body = Str("{\"setting\":true}") -> "allow"
      [] body = Str("{\"setting\":false}") -> "deny"
      [] body = Str("{}") -> "unset"
      [] OTHER -> "invalid"

\* how the server writes a permission setting: unset is null or no success field
SettingBodies(setting) ==
    CASE setting = "allow" -> {Ok(True)}
      [] setting = "deny" -> {Ok(False)}
      [] OTHER -> {Ok(Null), Envelope(Undefined, Undefined)}

Unset == [m \in Users |-> "unset"]

Sent(s, route) == calls[s].pc = "sent" /\ Route(calls[s].req) = route
IsMember(req, h) == h \in hubs /\ Requester(req) \in members[h]

Respond(s, json, seen) ==
    calls' = [calls EXCEPT ![s].pc = "responded",
                           ![s].resp = [ok |-> TRUE, json |-> json],
                           ![s].seen = seen]

ServeGetHub(s) ==
    LET req == calls[s].req
        h == Path(req)[2]
    IN  /\ Sent(s, "get_hub")
        /\ IsMember(req, h)
        /\ Respond(s, Ok(Obj(h)), "")
        /\ UNCHANGED <<clients, hubs, used, members, hubPerm, deleted>>

ServeCreateHub(s) ==
    LET req == calls[s].req
    IN  /\ Sent(s, "create_hub")
        /\ Requester(req) \in Users
        /\ \E h \in HubIds \ used :
            /\ used' = used \cup {h}
            /\ hubs' = hubs \cup {h}
            /\ members' = [members EXCEPT ![h] = {Requester(req)}]
            /\ Respond(s, Ok(Str(h)), "")
        /\ UNCHANGED <<clients, hubPerm, deleted>>

ServeDeleteHub(s) ==
    LET req == calls[s].req
        h == Path(req)[2]
    IN  /\ Sent(s, "delete_hub")
        /\ IsMember(req, h)
        /\ hubs' = hubs \ {h}
        /\ members' = [members EXCEPT ![h] = {}]
        /\ hubPerm' = [hubPerm EXCEPT ![h] = Unset]
        /\ Respond(s, Ok(Str("deleted")), "")
        /\ UNCHANGED <<clients, used, deleted>>

ServeJoinHub(s) ==
    LET req == calls[s].req
        h == Path(req)[2]
    IN  /\ Sent(s, "join_hub")
        /\ h \in hubs
        /\ Requester(req) \in Users \ members[h]
        /\ members' = [members EXCEPT ![h] = @ \cup {Requester(req)}]
        /\ Respond(s, Ok(Str("joined")), "")
        /\ UNCHANGED <<clients, hubs, used, hubPerm, deleted>>

ServeLeaveHub(s) ==
    LET req == calls[s].req
        h == Path(req)[2]
        u == Requester(req)
    IN  /\ Sent(s, "leave_hub")
        /\ IsMember(req, h)
        /\ members' = [members EXCEPT ![h] = @ \ {u}]
        /\ hubPerm' = [hubPerm EXCEPT ![h][u] = "unset"]
        /\ Respond(s, Ok(Str("left")), "")
        /\ UNCHANGED <<clients, hubs, used, deleted>>

ServeSetHubPermission(s) ==
    LET req == calls[s].req
        h == Path(req)[2]
        m == Path(req)[4]
    IN  /\ Sent(s, "set_hub_permission")
        /\ IsMember(req, h)
        /\ m \in members[h]
        /\ SettingOf(req.body) # "invalid"
        /\ hubPerm' = [hubPerm EXCEPT ![h][m] = SettingOf(req.body)]
        /\ Respond(s, Ok(Obj("MemberStatus")), "")
        /\ UNCHANGED <<clients, hubs, used, members, deleted>>

ServeGetHubPermission(s) ==
    LET req == calls[s].req
        h == Path(req)[2]
        m == Path(req)[4]
    IN  /\ Sent(s, "get_hub_permission")
        /\ IsMember(req, h)
        /\ m \in members[h]
        /\ \E json \in SettingBodies(hubPerm[h][m]) : Respond(s, json, hubPerm[h][m])
        /\ UNCHANGED <<clients, hubs, used, members, hubPerm, deleted>>

\* the settings of channel permissions are not tracked: the server accepts a
\* valid setting, and answers a read with any of the settings
ServeSetChannelPermission(s) ==
    LET req == calls[s].req
        h == Path(req)[2]
        m == Path(req)[4]
    IN  /\ Sent(s, "set_channel_permission")
        /\ IsMember(req, h)
        /\ m \in members[h]
        /\ SettingOf(req.body) # "invalid"
        /\ Respond(s, Ok(Obj("MemberStatus")), "")
        /\ UNCHANGED <<clients, hubs, used, members, hubPerm, deleted>>

ServeGetChannelPermission(s) ==
    LET req == calls[s].req
        h == Path(req)[2]
        m == Path(req)[4]
    IN  /\ Sent(s, "get_channel_permission")
        /\ IsMember(req, h)
        /\ m \in members[h]
        /\ \E setting \in {"allow", "deny", "unset"} :
            \E json \in SettingBodies(setting) : Respond(s, json, setting)
        /\ UNCHANGED <<clients, hubs, used, members, hubPerm, deleted>>

\* any request to a stateful endpoint may be refused (not found, forbidden, ...)
ServeRefuse(s) ==
    /\ calls[s].pc = "sent"
    /\ Route(calls[s].req) \notin {"graphql", "other"}
    /\ Respond(s, Err("forbidden"), "")
    /\ UNCHANGED <<clients, hubs, used, members, hubPerm, deleted>>

ServeOther(s) ==
    /\ Sent(s, "other")
    /\ \E json \in OtherBodies : Respond(s, json, "")
    /\ UNCHANGED <<clients, hubs, used, members, hubPerm, deleted>>

ServeGraphQL(s) ==
    /\ Sent(s, "graphql")
    /\ \E json \in GraphBodies : Respond(s, json, "")
    /\ UNCHANGED <<clients, hubs, used, members, hubPerm, deleted>>

\* the response body is not JSON
ServeMalformed(s) ==
    /\ calls[s].pc = "sent"
    /\ calls' = [calls EXCEPT ![s].pc = "responded", ![s].resp = [ok |-> FALSE, json |-> Undefined]]
    /\ UNCHANGED <<clients, hubs, used, members, hubPerm, deleted>>

(***************************************************************************)
(* The asynchronous part of the client methods.                            *)
(***************************************************************************)
\* a method that retries once after a failure: it calls fetch again
Settled_retryOnce(call, outcome) ==
    IF outcome.kind = "raise" /\ call.nreq = 1
    THEN [call EXCEPT !.pc = "sent", !.resp = NoResp, !.nreq = call.nreq + 1]
    ELSE [call EXCEPT !.pc = "done", !.outcome = outcome]

\* the method ends with its outcome: it returns or throws, and calls fetch
\* no more
Settled(call, outcome) == [call EXCEPT !.pc = "done", !.outcome = outcome]

\* The invocation s ends.  draft is the outcome the draft of http has for
\* the same parsed body, thrown the reason of the await that rejected.
End(s, outcome, draft, thrown) ==
    /\ calls' = [calls EXCEPT ![s] =
            [Settled(calls[s], outcome) EXCEPT !.draft = draft, !.thrown = thrown]]
    /\ deleted' = IF calls[s].op = "deleteHub" /\ outcome.kind = "return"
                  THEN deleted \cup {<<calls[s].client, calls[s].args.hub>>}
                  ELSE deleted
    /\ UNCHANGED <<clients, hubs, used, members, hubPerm>>

Finish(s, outcome) == End(s, outcome, NoOutcome, NoThrown)

\* the reasons the two awaits reject with
FetchFailures == {[cls |-> "FetchError", message |-> "request failed"]}
JsonFailures == {[cls |-> "SyntaxError", message |-> "invalid json"]}

\* a method that catches the rejection and throws the Error it builds from
\* an envelope it never received
Propagate_asRemoteError(reason) == Raise("Error", ErrorMessage(Undefined))

\* no try/catch around the awaits: the rejection reason is what the method
\* throws
Propagate(reason) == Raise(reason.cls, reason.message)

\* await fetch(...) rejects: the failure leaves the method as it is
FetchFails(s) ==
    /\ calls[s].pc = "sent"
    /\ \E reason \in FetchFailures : End(s, Propagate(reason), NoOutcome, reason)

\* await response.json() rejects
JsonFails(s) ==
    /\ calls[s].pc = "responded"
    /\ ~calls[s].resp.ok
    /\ \E reason \in JsonFailures : End(s, Propagate(reason), NoOutcome, reason)

\* a method that keeps the parsed body in a variable shared by the calls:
\* it reads whatever body was parsed last
LocalJson_shared(s) ==
    IF \E t \in DOMAIN calls \ {s} : calls[t].resp.ok
    THEN calls[CHOOSE t \in DOMAIN calls \ {s} : calls[t].resp.ok].resp.json
    ELSE calls[s].resp.json

\* const json = await response.json(): a local of the invocation
LocalJson(s) == calls[s].resp.json

\* both awaits of http resolve
HttpCompletes(s) ==
    /\ calls[s].pc = "responded"
    /\ calls[s].resp.ok
    /\ calls[s].via # "fetch"
    /\ End(s, httpResult(LocalJson(s)), httpDraft(LocalJson(s)), NoThrown)

\* both awaits of graphQL resolve
GraphQLCompletes(s) ==
    /\ calls[s].pc = "responded"
    /\ calls[s].resp.ok
    /\ calls[s].via = "fetch"
    /\ Finish(s, graphQLResult(LocalJson(s)))

(***************************************************************************)
(* Specification: one caller that awaits each call before the next.        *)
(***************************************************************************)
Slots == {"main"}

\* the two clients as their constructors leave them
Constructed ==
    [c \in Clients |->
        IF c = "client" THEN HttpClient(ServerBase, "u1")
                        ELSE HttpClient(ServerBase, "u2")]

Init ==
    /\ clients = Constructed
    /\ calls = [s \in Slots |-> IdleCall]
    /\ hubs = {}
    /\ used = {}
    /\ members = [h \in HubIds |-> {}]
    /\ hubPerm = [h \in HubIds |-> Unset]
    /\ deleted = {}

Invoke(s, c) ==
    \/ Invoke_getHub(s, c)
    \/ Invoke_createHub(s, c)
    \/ Invoke_deleteHub(s, c)
    \/ Invoke_updateHub(s, c)
    \/ Invoke_joinHub(s, c)
    \/ Invoke_leaveHub(s, c)
    \/ Invoke_getChannel(s, c)
    \/ Invoke_updateChannel(s, c)
    \/ Invoke_deleteChannel(s, c)
    \/ Invoke_createChannel(s, c)
    \/ Invoke_getMember(s, c)
    \/ Invoke_getMemberStatus(s, c)
    \/ Invoke_setMemberHubPermission(s, c)
    \/ Invoke_setMemberChannelPermission(s, c)
    \/ Invoke_getMemberHubPermission(s, c)
    \/ Invoke_getMemberChannelPermission(s, c)
    \/ Invoke_memberAction(s, c)
    \/ Invoke_sendMessage(s, c)
    \/ Invoke_getMessage(s, c)
    \/ Invoke_getMessagesAfter(s, c)
    \/ Invoke_getMesssagesTimeRange(s, c)
    \/ Invoke_graphQL(s, c)
    \/ Invoke_put(s, c)
    \/ Invoke_delete(s, c)

Serve(s) ==
    \/ ServeGetHub(s)
    \/ ServeCreateHub(s)
    \/ ServeDeleteHub(s)
    \/ ServeJoinHub(s)
    \/ ServeLeaveHub(s)
    \/ ServeSetHubPermission(s)
    \/ ServeGetHubPermission(s)
    \/ ServeSetChannelPermission(s)
    \/ ServeGetChannelPermission(s)
    \/ ServeRefuse(s)
    \/ ServeOther(s)
    \/ ServeGraphQL(s)
    \/ ServeMalformed(s)

Settle(s) ==
    \/ FetchFails(s)
    \/ JsonFails(s)
    \/ HttpCompletes(s)
    \/ GraphQLCompletes(s)

Next ==
    \E s \in Slots :
        \/ \E c \in Clients : Invoke(s, c)
        \/ Serve(s)
        \/ Settle(s)

Spec == Init /\ [][Next]_vars

(***************************************************************************)
(* Two callers that do not wait for each other: each starts its next      *)
(* invocation when its previous one has ended, on either client, so two   *)
(* invocations of one client may be suspended at once and their requests  *)
(* and responses interleave in every order.  The hub exists already, with *)
(* u1 as its member.                                                       *)
(***************************************************************************)
ConcSlots == {"first", "second"}

InitConc ==
    /\ clients = Constructed
    /\ calls = [s \in ConcSlots |-> IdleCall]
    /\ hubs = HubIds
    /\ used = HubIds
    /\ members = [h \in HubIds |-> {"u1"}]
    /\ hubPerm = [h \in HubIds |-> Unset]
    /\ deleted = {}

InvokeConc(s, c) ==
    \/ Invoke_getHub(s, c)
    \/ Invoke_getMember(s, c)
    \/ Invoke_graphQL(s, c)

ServeConc(s) ==
    \/ ServeGetHub(s)
    \/ ServeRefuse(s)
    \/ ServeOther(s)
    \/ ServeGraphQL(s)
    \/ ServeMalformed(s)

NextConc ==
    \E s \in ConcSlots :
        \/ \E c \in Clients : InvokeConc(s, c)
        \/ ServeConc(s)
        \/ Settle(s)

SpecConc == InitConc /\ [][NextConc]_vars

(***************************************************************************)
(* Properties.                                                             *)
(***************************************************************************)
Done(s) == calls[s].pc = "done"
Issued(s) == calls[s].pc # "idle"
\* the call went through http and its response parsed to a JSON object
Unwrapped(s) ==
    /\ Done(s)
    /\ calls[s].via # "fetch"
    /\ calls[s].resp.ok
    /\ calls[s].resp.json.t = "object"
Success(s) == Prop(calls[s].resp.json, "success")
Error(s) == Prop(calls[s].resp.json, "error")
ContentType(req) == {h[2] : h \in {x \in req.headers : x[1] = "Content-type"}}
Authorization(req) == {h[2] : h \in {x \in req.headers : x[1] = "Authorization"}}
HelperOps == {"put", "delete"}
PermissionReads == {"getMemberHubPermission", "getMemberChannelPermission"}

\* C1: whenever the envelope's success field is defined, the call returns
\* exactly that value and does not raise, also when the value is falsy.
C1_DefinedSuccessIsReturned ==
    \A s \in Slots :
        (Unwrapped(s) /\ Success(s) # Undefined)
            => calls[s].outcome = Return(Success(s))

C1_Witness ==
    \E s \in Slots :
        /\ Unwrapped(s)
        /\ calls[s].resp.json = Envelope(False, Str("not found"))
        /\ calls[s].outcome = Return(False)

\* C2: whenever the envelope has an error field and no success field, the
\* call raises an Error whose message is the server's error string, and
\* returns no value.
C2_ErrorEnvelopeRaises ==
    \A s \in Slots :
        (Unwrapped(s) /\ Success(s) = Undefined /\ Error(s) # Undefined)
            => calls[s].outcome = Raise("Error", Error(s).v)

C2_Witness ==
    \E s \in Slots :
        /\ Unwrapped(s)
        /\ calls[s].resp.json = Err("not found")
        /\ calls[s].outcome.kind = "raise"
        /\ calls[s].outcome.message = "not found"

\* C3: the request of deleteHub(id) has the verb DELETE, the URL
\* base_url + "/hub/" + id, and the Authorization header only.
C3_DeleteHubSendsDelete ==
    \A s \in Slots :
        (Issued(s) /\ calls[s].op = "deleteHub")
            => /\ calls[s].req.method = "DELETE"
               /\ calls[s].req.url = clients[calls[s].client].base_url
                                        \o <<"/hub/", calls[s].args.hub>>
               /\ calls[s].req.headers =
                    {Header("Authorization", clients[calls[s].client].auth)}

\* C4: once deleteHub(hub) has returned on a client, no later getHub(hub) of
\* that client returns a value.
C4_GetHubRaisesAfterDeleteHub ==
    \A s \in Slots :
        (Done(s) /\ calls[s].op = "getHub" /\ calls[s].afterDelete)
            => calls[s].outcome.kind = "raise"

\* C5: graphQL returns the parsed response body as it is, whatever the body:
\* a body with an error field and no success field is returned, not raised.
C5_GraphQLReturnsRawBody ==
    \A s \in Slots :
        (Done(s) /\ calls[s].op = "graphQL" /\ calls[s].resp.ok)
            => calls[s].outcome = Return(calls[s].resp.json)

C5_Witness ==
    \E s \in Slots :
        /\ Done(s)
        /\ calls[s].op = "graphQL"
        /\ calls[s].resp.json = Err("bad query")
        /\ calls[s].outcome.kind = "return"

\* C6: when the server answers getMemberHubPermission with the member's
\* setting, an unset permission is returned as undefined without raising,
\* and a permission set to true is returned as true.
C6_PermissionReadAfterJoinAndSet ==
    \A s \in Slots :
        (Done(s) /\ calls[s].op = "getMemberHubPermission" /\ calls[s].resp.ok)
            => /\ calls[s].seen = "unset" => calls[s].outcome = Return(Undefined)
               /\ calls[s].seen = "allow" => calls[s].outcome = Return(True)

\* C7: on the two permission reads, deny is returned as the value false,
\* allow as the value true, and unset (success null or absent) as neither:
\* the three outcomes are pairwise different.
C7_PermissionOutcomesDistinct ==
    \A s \in Slots :
        (Unwrapped(s) /\ calls[s].op \in PermissionReads)
            => /\ Success(s) = False => calls[s].outcome = Return(False)
               /\ Success(s) = True => calls[s].outcome = Return(True)
               /\ Success(s) \in {Null, Undefined}
                    => calls[s].outcome \notin {Return(False), Return(True)}

C7_Witness ==
    \E s \in Slots :
        /\ Unwrapped(s)
        /\ calls[s].op = "getMemberHubPermission"
        /\ calls[s].seen = "deny"
        /\ calls[s].outcome = Return(False)

\* C8: every request of an endpoint method carries one Authorization header,
\* whose value is the auth of the client that made the call, and goes to a
\* URL that begins with that client's base_url.
C8_AuthAndBaseUrlOnEveryRequest ==
    \A s \in Slots :
        (Issued(s) /\ calls[s].op \notin HelperOps)
            => LET cl == clients[calls[s].client]
                   req == calls[s].req
               IN  /\ Authorization(req) = {cl.auth}
                   /\ Len(req.url) > Len(cl.base_url)
                   /\ SubSeq(req.url, 1, Len(cl.base_url)) = cl.base_url

C8_Witness ==
    \E s \in Slots :
        /\ Issued(s)
        /\ calls[s].op = "deleteChannel"
        /\ calls[s].client = "extra_client"
        /\ calls[s].req.method = "DELETE"
        /\ Authorization(calls[s].req) = {"u2"}

\* C9: a request made through post has the verb POST; with a body argument
\* it has Content-type application/json and the JSON text of the argument as
\* body, without one it has the empty string as body and as Content-type.
C9_PostBodyAndContentType ==
    \A s \in Slots :
        (Issued(s) /\ calls[s].via = "post")
            => LET req == calls[s].req
                   body == calls[s].args.body
               IN  /\ req.method = "POST"
                   /\ body # Undefined
                        => /\ ContentType(req) = {"application/json"}
                           /\ req.body = JSONstringify(body)
                   /\ body = Undefined
                        => /\ ContentType(req) = {""}
                           /\ req.body = Str("")
                   /\ body = Fields2("name", Str("test0"), "description", Undefined)
                        => req.body = Str("{\"name\":\"test0\"}")

C9_Witness ==
    \E s \in Slots :
        /\ Issued(s)
        /\ calls[s].op = "joinHub"
        /\ calls[s].args.body = Undefined
        /\ calls[s].req.body = Str("")
        /\ ContentType(calls[s].req) = {""}

\* C10 as stated: a request made through put has the verb PUT; with a body
\* argument it has Content-type application/json and the JSON serialization
\* of the argument as body, without one an empty body and an empty
\* Content-type.
C10_PutSerializesLikePost ==
    \A s \in Slots :
        (Issued(s) /\ calls[s].via = "put")
            => LET req == calls[s].req
                   body == calls[s].args.body
               IN  /\ req.method = "PUT"
                   /\ body # Undefined
                        => /\ ContentType(req) = {"application/json"}
                           /\ req.body = JSONstringify(body)
                   /\ body = Undefined
                        => /\ ContentType(req) = {""}
                           /\ req.body = Str("")

\* C10, amended: a request made through put has the verb PUT and Content-type
\* application/json whether or not there is a body argument, and its body is
\* the argument itself, not serialized again: no body when there is none.
C10_PutPassesBodyThrough ==
    \A s \in Slots :
        (Issued(s) /\ calls[s].via = "put")
            => /\ calls[s].req.method = "PUT"
               /\ ContentType(calls[s].req) = {"application/json"}
               /\ calls[s].req.body = calls[s].args.body

C10_Witness ==
    \E s \in Slots :
        /\ Issued(s)
        /\ calls[s].op = "put"
        /\ calls[s].args.body = Undefined
        /\ calls[s].req.body = Undefined
        /\ ContentType(calls[s].req) = {"application/json"}

\* C11: an invocation calls fetch once.  While it is pending it sends nothing
\* more, and once it has ended, with a value, an error envelope or a transport
\* failure, its request count and outcome stay as they are until the caller
\* makes its next invocation.
C11_OneRequestPerInvocation ==
    [][\A s \in DOMAIN calls :
        /\ calls'[s].pc # "idle" => calls'[s].nreq = 1
        /\ calls[s].pc \in {"sent", "responded"}
            => /\ calls'[s].pc \in {"sent", "responded", "done"}
               /\ calls'[s].req = calls[s].req
        /\ (Done(s) /\ calls'[s].pc = "done")
            => calls'[s].outcome = calls[s].outcome]_vars

C11_Witness ==
    \E s \in DOMAIN calls :
        /\ Done(s)
        /\ calls[s].outcome.cls = "FetchError"
        /\ calls[s].nreq = 1

\* C12: whatever calls have been made, and however they ended, both clients
\* have the base_url and the auth their constructors were given.
C12_ClientFieldsNeverChange == clients = Constructed

C12_Witness ==
    \E s \in DOMAIN calls :
        /\ Done(s)
        /\ calls[s].outcome.kind = "raise"
        /\ used # {}
        /\ clients[calls[s].client] = Constructed[calls[s].client]

\* C13: a call that was suspended together with another call ends with what
\* its own response says: a value it returns is a value of its own response
\* body, an Error it throws has the message of its own error envelope, and
\* a rejection it passes on is the one of its own awaits.
C13_OutcomeFromOwnResponse ==
    \A s \in DOMAIN calls :
        (Done(s) /\ calls[s].overlapped) =>
            LET own == calls[s].resp
                o == calls[s].outcome
            IN  /\ ~own.ok => /\ o.kind = "raise"
                              /\ o.cls = calls[s].thrown.cls
                              /\ o.message = calls[s].thrown.message
                /\ (own.ok /\ calls[s].via = "fetch") => o = Return(own.json)
                /\ (own.ok /\ calls[s].via # "fetch" /\ Throws(own.json))
                      => (o.kind = "raise" /\ o.cls = "TypeError")
                /\ (own.ok /\ calls[s].via # "fetch" /\ ~Throws(own.json))
                      => IF Prop(own.json, "success") # Undefined
                         THEN o = Return(Prop(own.json, "success"))
                         ELSE o = Raise("Error", ErrorMessage(Prop(own.json, "error")))

C13_Witness ==
    \E s, t \in DOMAIN calls :
        /\ s # t
        /\ Done(s) /\ Done(t)
        /\ calls[s].overlapped /\ calls[t].overlapped
        /\ calls[s].client = calls[t].client
        /\ calls[s].op = calls[t].op
        /\ calls[s].outcome.kind = "return"
        /\ calls[s].outcome.value = Str("ok")
        /\ calls[t].outcome.kind = "raise"
        /\ calls[t].outcome.message = "not found"

\* C14: on a parsed envelope whose success field is truthy or absent the
\* draft of http and the final http end alike; on one whose success field
\* is defined and falsy the draft throws the Error of the error field and
\* the final http returns the success value.
C14_DraftAndFinalHttp ==
    \A s \in DOMAIN calls :
        Unwrapped(s) =>
            LET final == calls[s].outcome
                draft == calls[s].draft
            IN  IF Truthy(Success(s)) \/ Success(s) = Undefined
                THEN draft = final
                ELSE /\ draft = Raise("Error", ErrorMessage(Error(s)))
                     /\ final = Return(Success(s))
                     /\ draft # final

C14_Witness ==
    \E s \in DOMAIN calls :
        /\ Unwrapped(s)
        /\ Success(s) = Num("0")
        /\ calls[s].draft.kind = "raise"
        /\ calls[s].outcome.kind = "return"

\* C15: when fetch or response.json() rejects, the method throws that very
\* rejection: same class and message, no value, and not the Error that http
\* builds from an envelope.
C15_FailurePropagatesUnchanged ==
    \A s \in DOMAIN calls :
        (Done(s) /\ calls[s].thrown # NoThrown) =>
            /\ calls[s].outcome.kind = "raise"
            /\ calls[s].outcome.cls = calls[s].thrown.cls
            /\ calls[s].outcome.message = calls[s].thrown.message
            /\ calls[s].outcome.value = Undefined
            /\ calls[s].outcome.cls # "Error"
            /\ calls[s].resp.json = Undefined

C15_Witness ==
    \E s \in DOMAIN calls :
        /\ Done(s)
        /\ calls[s].via = "fetch"
        /\ calls[s].thrown \in JsonFailures
        /\ calls[s].outcome.cls = "SyntaxError"

\* C16: a call of http whose body parsed ends in one way, fixed by the body:
\* it returns the success value exactly when success is defined, whether or
\* not error is present too; otherwise it throws, with an empty message
\* when error is absent as well; and the value it returns is never undefined.
C16_HttpOutcomeIsFunctionOfEnvelope ==
    \A s \in DOMAIN calls :
        (Done(s) /\ calls[s].via # "fetch" /\ calls[s].resp.ok) =>
            LET json == calls[s].resp.json
                o == calls[s].outcome
            IN  /\ o.kind \in {"return", "raise"}
                /\ o.kind = "return" <=> (~Throws(json) /\ Prop(json, "success") # Undefined)
                /\ o.kind = "return" => (o.value = Prop(json, "success") /\ o.value # Undefined
                                            /\ o.cls = "" /\ o.message = "")
                /\ o.kind = "raise" => o.value = Undefined
                /\ (~Throws(json) /\ Prop(json, "success") = Undefined
                        /\ Prop(json, "error") = Undefined)
                      => o = Raise("Error", "")

C16_Witness ==
    \E s \in DOMAIN calls :
        /\ Unwrapped(s)
        /\ Success(s) = False
        /\ Error(s) # Undefined
        /\ calls[s].outcome = Return(False)

====
